---- MODULE Spec2Model ----
(***************************************************************************)
(* A model of the setup-bash-fun action: the hand-rolled subset of         *)
(* @actions/core (command formatter, annotation API, file-command writer)  *)
(* and the fetch orchestrator that downloads fun.sh.                       *)
(*                                                                         *)
(* The repository holds three drafts of the program, and the model keeps   *)
(* them apart (variable draft):                                            *)
(*   "main.js"   src/main.js            class core   + run()               *)
(*   "part_001"  src/unnamed/part_001   free functions + run()             *)
(*   "README.md" src/README.md:352-630  class Core   + main()              *)
(* Definitions named core_X model src/main.js, Core_X model the Core class *)
(* of src/README.md, and unprefixed names model src/unnamed/part_001 or    *)
(* code that is textually the same in all drafts.                          *)
(*                                                                         *)
(* main.js is modelled method by method.  Private helpers it calls and     *)
(* does not declare (#issueFileCommand, #prepareKeyValueMessage) are taken *)
(* from README.md's Core class; #issue is declared nowhere in the          *)
(* repository and is modelled from the specification.                      *)
(*                                                                         *)
(* Text is a sequence of atoms.  An atom is one character ("%", ":", ",",  *)
(* "\r", "\n", " ", ...) or a chunk of literal text free of the            *)
(* characters the program inspects.  The delimiter "::" written by the     *)
(* formatter is one atom.                                                  *)
(***************************************************************************)
EXTENDS Integers, Sequences, FiniteSets, TLC

VARIABLES
    draft,      \* which draft of the program runs
    env,        \* process.env: variable name -> JS value (undefined when unset)
    disk,       \* file system: path -> [exists, content]
    disk0,      \* the file system when the process started (history)
    exitCode,   \* process.exitCode
    stdout,     \* process.stdout: the sequence of writes, each a Text
    crashed,    \* an exception escaped every handler (uncaught exception)
    calls,      \* history: the API calls made so far, in order
    pc,         \* fetch orchestrator: position of run()/main()
    req,        \* fetch orchestrator: the https request
    file,       \* fetch orchestrator: the destination write stream
    grp         \* group(name, fn) calls in flight and their event trace

vars == <<draft, env, disk, disk0, exitCode, stdout, crashed, calls, pc, req, file, grp>>

-----------------------------------------------------------------------------
(* Bounds *)

MaxCalls == 2       \* API calls per behaviour
MaxLen == 2         \* atoms of a message handed to the formatter
MaxChunks == 2      \* body chunks the server sends before the response ends

-----------------------------------------------------------------------------
(* Text and JS values *)

Drafts == {"main.js", "part_001", "README.md"}

\* os.EOL on the POSIX hosts the action runs on
EOL == <<"\n">>

\* String.prototype.replace(/c/g, r): every occurrence of atom c becomes r
RECURSIVE ReplaceAll(_, _, _)
ReplaceAll(s, c, r) ==
    IF s = <<>> THEN <<>>
    ELSE (IF Head(s) = c THEN r ELSE <<Head(s)>>) \o ReplaceAll(Tail(s), c, r)

\* Array.prototype.join(sep) over a sequence of Texts
RECURSIVE Join(_, _)
Join(ss, sep) ==
    IF ss = <<>> THEN <<>>
    ELSE IF Len(ss) = 1 THEN Head(ss)
    ELSE Head(ss) \o sep \o Join(Tail(ss), sep)

Count(s, c) == Cardinality({i \in 1..Len(s) : s[i] = c})

\* t occurs in s as a contiguous run of atoms
Contains(s, t) ==
    \E i \in 0..(Len(s) - Len(t)) : \A j \in 1..Len(t) : s[i + j] = t[j]

\* JS values: a string, a number (v holds its decimal digits), an Error
\* object (v holds its message) or undefined
JsStr(t) == [t |-> "str", v |-> t]
JsNum(d) == [t |-> "num", v |-> d]
JsErr(t) == [t |-> "err", v |-> t]
JsUndef  == [t |-> "undef", v |-> <<>>]

\* JS truthiness: '' , 0 and undefined are falsy
Truthy(x) ==
    CASE x.t = "str"   -> x.v # <<>>
      [] x.t = "num"   -> x.v # <<"0">>
      [] x.t = "err"   -> TRUE
      [] x.t = "undef" -> FALSE

\* String(x), as a template literal `${x}` converts a value
ToStr(x) ==
    CASE x.t = "str"   -> x.v
      [] x.t = "num"   -> x.v
      [] x.t = "err"   -> <<"Error: ">> \o x.v
      [] x.t = "undef" -> <<"undefined">>

\* The effect of a call: whether it threw, what it wrote to stdout, the exit
\* code and the file system it leaves, and the value it returned
Wrote(w)  == [threw |-> FALSE, out |-> <<w>>, exitCode |-> exitCode, disk |-> disk, ret |-> JsUndef]
Threw     == [threw |-> TRUE,  out |-> <<>>,  exitCode |-> exitCode, disk |-> disk, ret |-> JsUndef]
Returned(x) == [threw |-> FALSE, out |-> <<>>, exitCode |-> exitCode, disk |-> disk, ret |-> x]

-----------------------------------------------------------------------------
(* Command formatter *)

\* an escapeData that replaces '%' last, after the carriage returns and the
\* line feeds
escapeData_percentLast(s) ==
    ReplaceAll(ReplaceAll(ReplaceAll(s, "\r", <<"%", "0", "D">>),
                          "\n", <<"%", "0", "A">>),
               "%", <<"%", "2", "5">>)

escapeData(s) ==
    ReplaceAll(ReplaceAll(ReplaceAll(s, "%", <<"%", "2", "5">>),
                          "\r", <<"%", "0", "D">>),
               "\n", <<"%", "0", "A">>)

\* an escapeProperty that stops after the substitutions of escapeData
escapeProperty_dataOnly(s) == escapeData(s)

escapeProperty(s) ==
    ReplaceAll(ReplaceAll(escapeData(s), ":", <<"%", "3", "A">>),
               ",", <<"%", "2", "C">>)

\* s.replace(...) on a value: only a string has the method
CanReplace(x) == x.t = "str"

\* Object.entries(properties).map(([key, val]) => `${key}=${escapeProperty(val)}`)
PropStrs(props) == [i \in 1..Len(props) |-> <<props[i][1], "=">> \o escapeProperty(props[i][2].v)]

\* src/main.js #issueCommand (the same text as issueCommand of part_001):
\* every entry is escaped, header and message are separated by a line feed
core_issueCommand(command, props, message) ==
    IF (\E i \in 1..Len(props) : ~CanReplace(props[i][2])) \/ ~CanReplace(message)
    THEN Threw
    ELSE Wrote(<<"::", command, " ">> \o Join(PropStrs(props), <<",">>)
               \o <<"\n">> \o escapeData(message.v) \o EOL)

\* Array.prototype.filter(([key, val]) => val)
RECURSIVE FilterTruthy(_)
FilterTruthy(props) ==
    IF props = <<>> THEN <<>>
    ELSE (IF Truthy(Head(props)[2]) THEN <<Head(props)>> ELSE <<>>)
         \o FilterTruthy(Tail(props))

\* src/README.md Core.#issueCommand: falsy properties are filtered out, an
\* undefined message defaults to ''
Core_issueCommand(command, props, message) ==
    LET kept == FilterTruthy(props)
        msg  == IF message.t = "undef" THEN JsStr(<<>>) ELSE message
    IN  IF (\E i \in 1..Len(kept) : ~CanReplace(kept[i][2])) \/ ~CanReplace(msg)
        THEN Threw
        ELSE Wrote(<<"::", command, " ">> \o Join(PropStrs(kept), <<",">>)
                   \o <<"::">> \o escapeData(msg.v) \o EOL)

-----------------------------------------------------------------------------
(* Annotation API *)

AnnotationFields == <<"title", "file", "startLine", "endLine", "startColumn", "endColumn">>

\* props.key of an object given as its entries, undefined when absent
Lookup(props, k) ==
    IF \E i \in 1..Len(props) : props[i][1] = k
    THEN props[CHOOSE i \in 1..Len(props) : props[i][1] = k][2]
    ELSE JsUndef

\* src/main.js AnnotationProperties: no own property for an empty props,
\* otherwise all six, the absent ones undefined
core_AnnotationProperties(props) ==
    IF props = <<>> THEN <<>>
    ELSE [i \in 1..6 |-> <<AnnotationFields[i], Lookup(props, AnnotationFields[i])>>]

\* src/README.md AnnotationProperties: Object.assign of the six fields
Core_AnnotationProperties(props) ==
    [i \in 1..6 |-> <<AnnotationFields[i], Lookup(props, AnnotationFields[i])>>]

\* message instanceof Error ? message.toString() : message
MsgString(message) == IF message.t = "err" THEN JsStr(ToStr(message)) ELSE message

\* #issue is called by src/main.js and declared nowhere: a command with no
\* properties, a missing message being the empty string
core_issue(name, message) ==
    core_issueCommand(name, <<>>, IF message.t = "undef" THEN JsStr(<<>>) ELSE message)

core_debug(message) == core_issueCommand("debug", <<>>, message)
Core_debug(message) == Core_issueCommand("debug", <<>>, message)

core_error(message, props) ==
    core_issueCommand("error", core_AnnotationProperties(props), MsgString(message))
Core_error(message, props) ==
    Core_issueCommand("error", Core_AnnotationProperties(props), MsgString(message))

core_warning(message, props) ==
    core_issueCommand("warning", core_AnnotationProperties(props), MsgString(message))
Core_warning(message, props) ==
    Core_issueCommand("warning", Core_AnnotationProperties(props), MsgString(message))

core_notice(message, props) ==
    core_issueCommand("notice", core_AnnotationProperties(props), MsgString(message))
Core_notice(message, props) ==
    Core_issueCommand("notice", Core_AnnotationProperties(props), MsgString(message))

\* setFailed that forgets the exit code
setFailed_keepsExitCode(message) == core_error(message, <<>>)

\* process.exitCode = 1, then error(message): the exit code is set even
\* when error() throws
core_setFailed(message) == [core_error(message, <<>>) EXCEPT !.exitCode = 1]
Core_setFailed(message) == [Core_error(message, <<>>) EXCEPT !.exitCode = 1]
setFailed(message) ==
    [core_issueCommand("error", <<>>, MsgString(message)) EXCEPT !.exitCode = 1]

core_startGroup(name) == core_issue("group", name)
Core_startGroup(name) == Core_issueCommand("group", <<>>, name)

core_endGroup == core_issue("endgroup", JsUndef)
Core_endGroup == Core_issueCommand("endgroup", <<>>, JsUndef)

core_setCommandEcho(enabled) ==
    core_issue("echo", JsStr(IF enabled THEN <<"on">> ELSE <<"off">>))
Core_setCommandEcho(enabled) ==
    Core_issueCommand("echo", <<>>, JsStr(IF enabled THEN <<"on">> ELSE <<"off">>))

-----------------------------------------------------------------------------
(* Environment, inputs and state *)

Whitespace == {" ", "\t", "\n", "\r"}

\* String.prototype.trim()
Trim(s) ==
    LET keep == {i \in 1..Len(s) : s[i] \notin Whitespace}
    IN  IF keep = {} THEN <<>>
        ELSE SubSeq(s, CHOOSE i \in keep : \A j \in keep : i <= j,
                       CHOOSE i \in keep : \A j \in keep : j <= i)

LowerCase == <<"a", "d", "e", "f", "m", "n", "r", "s", "t", "y">>
UpperCase == <<"A", "D", "E", "F", "M", "N", "R", "S", "T", "Y">>

\* String.prototype.toUpperCase(), atom by atom
toUpperCase(s) ==
    [i \in 1..Len(s) |->
        IF \E k \in 1..Len(LowerCase) : LowerCase[k] = s[i]
        THEN UpperCase[CHOOSE k \in 1..Len(LowerCase) : LowerCase[k] = s[i]]
        ELSE s[i]]

\* process.env[key]: undefined for a variable that is not set
EnvGet(key) == IF key \in DOMAIN env THEN env[key] ELSE JsUndef

\* x || ''
OrEmpty(x) == IF Truthy(x) THEN x.v ELSE <<>>

\* src/main.js core.getInput (README.md's Core.getInput has the same text)
core_getInput(name, required) ==
    LET val == OrEmpty(EnvGet(<<"INPUT_">> \o toUpperCase(ReplaceAll(name, "-", <<"_">>))))
    IN  IF required /\ val = <<>> THEN Threw ELSE Returned(JsStr(Trim(val)))

\* src/unnamed/part_001 getInput: spaces, not hyphens, become underscores
getInput(name, required) ==
    LET val == OrEmpty(EnvGet(<<"INPUT_">> \o toUpperCase(ReplaceAll(name, " ", <<"_">>))))
    IN  IF required /\ val = <<>> THEN Threw ELSE Returned(JsStr(Trim(val)))

core_getState(name) == Returned(JsStr(OrEmpty(EnvGet(<<"STATE_">> \o name))))

-----------------------------------------------------------------------------
(* File-command writer *)

\* fs.existsSync(path)
existsSync(d, path) == path \in DOMAIN d /\ d[path].exists

\* the file system with the file at path holding content
DiskPut(d, path, content) ==
    [q \in DOMAIN d \cup {path} |->
        IF q = path THEN [exists |-> TRUE, content |-> content] ELSE d[q]]

\* the file system without the file at path
DiskRemove(d, path) ==
    [q \in DOMAIN d |-> IF q = path THEN [exists |-> FALSE, content |-> <<>>] ELSE d[q]]

toCommandValue(input) ==
    CASE input.t = "undef" -> <<>>
      [] input.t = "str"   -> input.v
      [] input.t = "num"   -> input.v      \* JSON.stringify(5) is '5'
      [] input.t = "err"   -> <<"{}">>     \* JSON.stringify(new Error(..)) is '{}'

\* an #issueFileCommand without the fs.existsSync check: appendFileSync
\* creates the file it is told to append to
issueFileCommand_noExistsCheck(command, message) ==
    LET filePath == EnvGet(<<"GITHUB_", command>>)
    IN  IF ~Truthy(filePath) THEN Threw
        ELSE [Returned(JsUndef) EXCEPT
                !.disk = DiskPut(disk, filePath.v,
                                 (IF filePath.v \in DOMAIN disk THEN disk[filePath.v].content ELSE <<>>)
                                 \o toCommandValue(JsStr(message)) \o EOL)]

\* an #issueFileCommand that uses writeFileSync: the file is replaced
issueFileCommand_truncates(command, message) ==
    LET filePath == EnvGet(<<"GITHUB_", command>>)
    IN  IF ~Truthy(filePath) THEN Threw
        ELSE IF ~existsSync(disk, filePath.v) THEN Threw
        ELSE [Returned(JsUndef) EXCEPT
                !.disk = DiskPut(disk, filePath.v, toCommandValue(JsStr(message)) \o EOL)]

\* Core.#issueFileCommand: the variable must be set and name a file that
\* exists; the message and a line terminator are appended
Core_issueFileCommand(command, message) ==
    LET filePath == EnvGet(<<"GITHUB_", command>>)
    IN  IF ~Truthy(filePath) THEN Threw
        ELSE IF ~existsSync(disk, filePath.v) THEN Threw
        ELSE [Returned(JsUndef) EXCEPT
                !.disk = DiskPut(disk, filePath.v,
                                 disk[filePath.v].content \o toCommandValue(JsStr(message)) \o EOL)]

\* a #prepareKeyValueMessage that escapes the value as #issueCommand does
prepareKeyValueMessage_escaped(key, value, uuid) ==
    LET delimiter == <<"ghadelimiter_", uuid>>
    IN  key \o <<"<<">> \o delimiter \o EOL \o escapeData(toCommandValue(value)) \o EOL \o delimiter

\* a #prepareKeyValueMessage that leaves out the closing delimiter
prepareKeyValueMessage_noClosing(key, value, uuid) ==
    LET delimiter == <<"ghadelimiter_", uuid>>
    IN  key \o <<"<<">> \o delimiter \o EOL \o toCommandValue(value) \o EOL

\* Core.#prepareKeyValueMessage, uuid being what uuidv4() returned
Core_prepareKeyValueMessage(key, value, uuid) ==
    LET delimiter == <<"ghadelimiter_", uuid>>
    IN  key \o <<"<<">> \o delimiter \o EOL \o toCommandValue(value) \o EOL \o delimiter

Core_setOutput(name, value, uuid) ==
    Core_issueFileCommand("OUTPUT", Core_prepareKeyValueMessage(name, value, uuid))

Core_saveState(name, value, uuid) ==
    Core_issueFileCommand("STATE", Core_prepareKeyValueMessage(name, value, uuid))

\* src/main.js checks the variable itself before it calls the helpers
core_setOutput(name, value, uuid) ==
    IF ~Truthy(EnvGet(<<"GITHUB_", "OUTPUT">>)) THEN Threw
    ELSE Core_issueFileCommand("OUTPUT", Core_prepareKeyValueMessage(name, value, uuid))

core_saveState(name, value, uuid) ==
    IF ~Truthy(EnvGet(<<"GITHUB_", "STATE">>)) THEN Threw
    ELSE Core_issueFileCommand("STATE", Core_prepareKeyValueMessage(name, value, uuid))

\* src/unnamed/part_001 setOutput: the legacy line on stdout, nothing escaped
setOutput(name, value) ==
    Wrote(<<"::", "set-output", " ", "name", "=">> \o name \o <<"::">> \o ToStr(value) \o <<"\n">>)

-----------------------------------------------------------------------------
(* group(name, fn) *)

\* core.group / Core.group after `await fn()` has settled: the finally
\* block runs endGroup() whether fn resolved (ok) or rejected
\* group with endGroup() after the await instead of in a finally block
group_endsOnlyOnSuccess(ok) == IF ok THEN core_endGroup ELSE Returned(JsUndef)

core_group_finally(ok) == core_endGroup
Core_group_finally(ok) == Core_endGroup

-----------------------------------------------------------------------------
(* Files and variables of the model's hosts *)

OutputFile == <<"/", "runner", "/", "output">>
StateFile  == <<"/", "runner", "/", "state">>
homedir    == <<"/", "home">>
cwd        == <<"/", "work">>

K_OUTPUT == <<"GITHUB_", "OUTPUT">>
K_STATE  == <<"GITHUB_", "STATE">>
K_REF    == <<"INPUT_", "R", "E", "F">>
K_DEST   == <<"INPUT_", "D", "E", "S", "T">>
K_SAVED  == <<"STATE_", "s">>
K_MY_NAME == <<"INPUT_", "M", "Y", "_", "N", "A", "M", "E">>

N_ref  == <<"r", "e", "f">>
N_dest == <<"d", "e", "s", "t">>
N_my_name == <<"m", "y", "-", "n", "a", "m", "e">>

NoFile == [exists |-> FALSE, content |-> <<>>]
EmptyFile == [exists |-> TRUE, content |-> <<>>]
\* a channel file that earlier steps of the job have written to
PriorFile == [exists |-> TRUE, content |-> <<"prior", "\n">>]

Uuids == {"uuid-1", "uuid-2"}

IdleReq  == [st |-> "none", url |-> <<>>, chunks |-> 0, err |-> <<>>]
IdleFile == [st |-> "none", path |-> <<>>]
IdleGrp  == [st |-> "idle", name |-> <<>>, ok |-> TRUE, trace |-> <<>>]

-----------------------------------------------------------------------------
(* SpecApi: a caller making Annotation API calls in any order *)

ApiMsgs == {JsStr(<<"boom">>), JsStr(<<"1", "%", "\r", "\n">>), JsErr(<<"E">>)}

ApiProps == {<<>>,
             << <<"title", JsStr(<<"T", ":", "\n">>)>> >>,
             << <<"file", JsStr(<<"f">>)>>, <<"startLine", JsNum(<<"5">>)>> >>}

ApiValues == {JsStr(<<"hello">>), JsStr(<<"a", "\n", "b">>)}

\* a value that holds a delimiter uuidv4() can produce
TokenValue == JsStr(<<"ghadelimiter_", "uuid-1">>)

\* the environment of the process: a runner that provides both channels, or
\* one that leaves GITHUB_OUTPUT unset and names a state file that does not
\* exist; the inputs 'ref' and 'my-name' are given, 'dest' is not
ApiEnv(provided) ==
    [k \in {K_OUTPUT, K_STATE, K_REF, K_SAVED, K_MY_NAME} |->
        CASE k = K_OUTPUT  -> IF provided THEN JsStr(OutputFile) ELSE JsUndef
          [] k = K_STATE   -> JsStr(StateFile)
          [] k = K_REF     -> JsStr(<<" ", "v", "1", " ">>)
          [] k = K_SAVED   -> JsStr(<<"kept">>)
          [] k = K_MY_NAME -> JsStr(<<" ", "value", " ">>)]

InitApi ==
    /\ draft \in Drafts
    /\ \E provided \in BOOLEAN :
         /\ env = ApiEnv(provided)
         /\ disk = [q \in {OutputFile, StateFile} |->
                    IF provided THEN PriorFile ELSE NoFile]
    /\ disk0 = disk
    /\ exitCode = 0
    /\ stdout = <<>>
    /\ crashed = FALSE
    /\ calls = <<>>
    /\ pc = "idle"
    /\ req = IdleReq
    /\ file = IdleFile
    /\ grp = IdleGrp

\* a call takes effect on the process and is recorded in the history
Apply(op, arg, props, eff) ==
    /\ calls' = Append(calls, [op |-> op, arg |-> arg, props |-> props,
                               threw |-> eff.threw, out |-> eff.out, ret |-> eff.ret])
    /\ stdout' = stdout \o eff.out
    /\ exitCode' = eff.exitCode
    /\ disk' = eff.disk
    /\ UNCHANGED <<draft, env, disk0, crashed, pc, req, file>>

\* one API call of the caller
ApiCall(op, arg, props, eff) ==
    /\ Len(calls) < MaxCalls
    /\ Apply(op, arg, props, eff)

IsCore == draft = "main.js"
HasClass == draft \in {"main.js", "README.md"}

CallDebug ==
    \E m \in ApiMsgs :
        /\ HasClass
        /\ ApiCall("debug", m, <<>>, IF IsCore THEN core_debug(m) ELSE Core_debug(m))
        /\ UNCHANGED grp

CallNotice ==
    \E m \in {JsStr(<<"1", "%", "\r", "\n">>)}, p \in ApiProps :
        /\ HasClass
        /\ ApiCall("notice", m, p, IF IsCore THEN core_notice(m, p) ELSE Core_notice(m, p))
        /\ UNCHANGED grp

CallWarning ==
    \E m \in {JsErr(<<"E">>)}, p \in ApiProps :
        /\ HasClass
        /\ ApiCall("warning", m, p, IF IsCore THEN core_warning(m, p) ELSE Core_warning(m, p))
        /\ UNCHANGED grp

CallError ==
    \E m \in ApiMsgs, p \in ApiProps :
        /\ HasClass
        /\ ApiCall("error", m, p, IF IsCore THEN core_error(m, p) ELSE Core_error(m, p))
        /\ UNCHANGED grp

CallSetFailed ==
    \E m \in ApiMsgs :
        /\ ApiCall("setFailed", m, <<>>,
                   CASE draft = "main.js"   -> core_setFailed(m)
                     [] draft = "README.md" -> Core_setFailed(m)
                     [] draft = "part_001"  -> setFailed(m))
        /\ UNCHANGED grp

CallStartGroup ==
    \E m \in ApiMsgs :
        /\ HasClass
        /\ m.t = "str"
        /\ ApiCall("startGroup", m, <<>>,
                   IF IsCore THEN core_startGroup(m) ELSE Core_startGroup(m))
        /\ UNCHANGED grp

CallEndGroup ==
    /\ HasClass
    /\ ApiCall("endGroup", JsUndef, <<>>, IF IsCore THEN core_endGroup ELSE Core_endGroup)
    /\ UNCHANGED grp

CallSetCommandEcho ==
    \E enabled \in BOOLEAN :
        /\ HasClass
        /\ ApiCall("setCommandEcho", JsStr(IF enabled THEN <<"on">> ELSE <<"off">>), <<>>,
                   IF IsCore THEN core_setCommandEcho(enabled) ELSE Core_setCommandEcho(enabled))
        /\ UNCHANGED grp

CallSetOutput ==
    \E v \in ApiValues \cup {TokenValue}, u \in Uuids :
        /\ ApiCall("setOutput", v, <<u>>,
                   CASE draft = "main.js"   -> core_setOutput(<<"x">>, v, u)
                     [] draft = "README.md" -> Core_setOutput(<<"x">>, v, u)
                     [] draft = "part_001"  -> setOutput(<<"x">>, v))
        /\ UNCHANGED grp

CallSaveState ==
    \E v \in ApiValues, u \in Uuids :
        /\ HasClass
        /\ ApiCall("saveState", v, <<u>>,
                   IF IsCore THEN core_saveState(<<"s">>, v, u) ELSE Core_saveState(<<"s">>, v, u))
        /\ UNCHANGED grp

CallGetInput ==
    \E n \in {N_ref, N_dest, N_my_name}, required \in BOOLEAN :
        /\ ApiCall("getInput", JsStr(n), IF required THEN <<"required">> ELSE <<>>,
                   IF HasClass THEN core_getInput(n, required) ELSE getInput(n, required))
        /\ UNCHANGED grp

CallGetState ==
    \E n \in {<<"s">>, <<"t">>} :
        /\ HasClass
        /\ ApiCall("getState", JsStr(n), <<>>, core_getState(n))
        /\ UNCHANGED grp

\* group(name, fn) is called: startGroup(name), then fn() starts and the
\* call waits for it
GroupCall ==
    \E m \in ApiMsgs :
        /\ HasClass
        /\ m.t = "str"
        /\ grp.st = "idle"
        /\ LET eff == IF IsCore THEN core_startGroup(m) ELSE Core_startGroup(m)
           IN  /\ ApiCall("group", m, <<>>, eff)
               /\ grp' = [st |-> "running", name |-> m.v, ok |-> TRUE,
                          trace |-> <<[ev |-> "start", at |-> Len(stdout) + 1],
                                      [ev |-> "fn started", at |-> Len(stdout) + 1]>>]

\* the promise fn() returned settles
FnSettle ==
    \E ok \in BOOLEAN :
        /\ grp.st = "running"
        /\ grp' = [grp EXCEPT !.st = "settled", !.ok = ok,
                       !.trace = Append(@, [ev |-> IF ok THEN "fn resolved" ELSE "fn rejected",
                                            at |-> Len(stdout)])]
        /\ UNCHANGED <<draft, env, disk, disk0, exitCode, stdout, crashed, calls, pc, req, file>>

\* the continuation of group after the await: the finally block
GroupFinally ==
    /\ grp.st = "settled"
    /\ LET eff == IF IsCore THEN core_group_finally(grp.ok) ELSE Core_group_finally(grp.ok)
       IN  /\ stdout' = stdout \o eff.out
           /\ exitCode' = eff.exitCode
           /\ disk' = eff.disk
           /\ grp' = [grp EXCEPT !.st = "finished",
                          !.ok = grp.ok /\ ~eff.threw,   \* an error of endGroup() rejects too
                          !.trace = IF eff.out # <<>>
                                    THEN Append(@, [ev |-> "end", at |-> Len(stdout) + 1])
                                    ELSE @]
    /\ UNCHANGED <<draft, env, disk0, crashed, calls, pc, req, file>>

\* the caller of group sees its promise settle: the result of fn, or its error
GroupSettle ==
    /\ grp.st = "finished"
    /\ grp' = [grp EXCEPT !.st = "idle",
                   !.trace = Append(@, [ev |-> IF grp.ok THEN "caller resolved" ELSE "caller rejected",
                                        at |-> Len(stdout)])]
    /\ UNCHANGED <<draft, env, disk, disk0, exitCode, stdout, crashed, calls, pc, req, file>>

NextApi ==
    \/ CallDebug \/ CallNotice \/ CallWarning \/ CallError \/ CallSetFailed
    \/ CallStartGroup \/ CallEndGroup \/ CallSetCommandEcho
    \/ CallSetOutput \/ CallSaveState \/ CallGetInput \/ CallGetState
    \/ GroupCall \/ FnSettle \/ GroupFinally \/ GroupSettle

SpecApi == InitApi /\ [][NextApi]_vars

-----------------------------------------------------------------------------
(* SpecFmt: the command formatter applied once to any command *)

FmtAtoms == {"b", "%", "\r", "\n", ":", ","}

\* the texts of at most n atoms
TextsUpTo(n) == UNION {[1..k -> FmtAtoms] : k \in 0..n}

FmtNames == {"error", "group"}

FmtMsgs == {JsStr(t) : t \in TextsUpTo(MaxLen)} \cup {JsUndef}

FmtVals == {JsStr(t) : t \in TextsUpTo(1)} \cup {JsUndef, JsNum(<<"5">>), JsNum(<<"0">>)}

\* property mappings of at most two entries, in either insertion order
FmtProps ==
    {<<>>}
    \cup {<< <<k, v>> >> : k \in {"title", "file"}, v \in FmtVals}
    \cup {<< <<"title", v>>, <<"file", w>> >> : v \in FmtVals, w \in FmtVals}
    \cup {<< <<"file", v>>, <<"title", w>> >> : v \in FmtVals, w \in FmtVals}

InitFmt ==
    /\ draft \in Drafts
    /\ env = [k \in {K_OUTPUT} |-> JsUndef]
    /\ disk = [q \in {OutputFile} |-> NoFile]
    /\ disk0 = disk
    /\ exitCode = 0
    /\ stdout = <<>>
    /\ crashed = FALSE
    /\ calls = <<>>
    /\ pc = "idle"
    /\ req = IdleReq
    /\ file = IdleFile
    /\ grp = IdleGrp

\* #issueCommand(name, props, m), recorded under the command's name
IssueCommand ==
    /\ calls = <<>>
    /\ \E name \in FmtNames, props \in FmtProps, m \in FmtMsgs :
        /\ Apply(name, m, props,
                 IF draft = "README.md" THEN Core_issueCommand(name, props, m)
                 ELSE core_issueCommand(name, props, m))
        /\ UNCHANGED grp

\* the text of the spec's examples for escapeData and escapeProperty
FmtExamples == {<<"100", "%", " done", "\r", "\n">>, <<"a", ":", "b", ",", "c">>}

FmtTexts == TextsUpTo(MaxLen) \cup FmtExamples

\* #escapeData(s) / escapeData(s) applied to a string
EscapeData ==
    /\ calls = <<>>
    /\ \E t \in FmtTexts :
        /\ Apply("escapeData", JsStr(t), <<>>, Returned(JsStr(escapeData(t))))
        /\ UNCHANGED grp

\* #escapeProperty(s) / escapeProperty(s) applied to a string
EscapeProperty ==
    /\ calls = <<>>
    /\ \E t \in FmtTexts :
        /\ Apply("escapeProperty", JsStr(t), <<>>, Returned(JsStr(escapeProperty(t))))
        /\ UNCHANGED grp

\* the values and keys handed to #prepareKeyValueMessage
FmtValues ==
    {JsStr(t) : t \in FmtTexts \cup {<<"hello">>}}
    \cup {JsUndef, JsNum(<<"5">>), JsErr(<<"E">>)}

FmtKeys == {<<"x">>, <<"my_key">>}

\* #prepareKeyValueMessage(key, value), uuidv4() returning u
PrepareKeyValueMessage ==
    /\ calls = <<>>
    /\ \E key \in FmtKeys, value \in FmtValues, u \in Uuids :
        /\ Apply("prepareKeyValueMessage", value, <<u, key>>,
                 Returned(JsStr(Core_prepareKeyValueMessage(key, value, u))))
        /\ UNCHANGED grp

\* --- Core.uuidv4 ---
\* A byte is a number in 0..255.  A JS bitwise operator works on 32-bit
\* two's complement integers; such a word is kept as its four bytes, least
\* significant first.

RECURSIVE BitOr(_, _, _)
BitOr(a, b, n) ==
    IF n = 0 THEN 0
    ELSE (IF a % 2 = 1 \/ b % 2 = 1 THEN 1 ELSE 0) + 2 * BitOr(a \div 2, b \div 2, n - 1)

RECURSIVE BitAnd(_, _, _)
BitAnd(a, b, n) ==
    IF n = 0 THEN 0
    ELSE (IF a % 2 = 1 /\ b % 2 = 1 THEN 1 ELSE 0) + 2 * BitAnd(a \div 2, b \div 2, n - 1)

\* the word of a byte read from the buffer
Word(b) == <<b, 0, 0, 0>>

\* x | y
bor(x, y) == [i \in 1..4 |-> BitOr(x[i], y[i], 8)]

\* x << n: the shift count is taken modulo 32 (the code shifts by whole
\* bytes only), and bits shifted past bit 31 are lost
shl(x, n) ==
    LET k == (n % 32) \div 8
    IN  [i \in 1..4 |-> IF i > k THEN x[i - k] ELSE 0]

HexDigits == <<"0", "1", "2", "3", "4", "5", "6", "7", "8", "9", "a", "b", "c", "d", "e", "f">>

\* the magnitude of a negative word: its two's complement, byte by byte
Negate(x) ==
    LET inv == [i \in 1..4 |-> 255 - x[i]]
        carry(i) == \A j \in 1..(i - 1) : inv[j] = 255    \* the +1 reaches byte i
    IN  [i \in 1..4 |-> IF carry(i) THEN (inv[i] + 1) % 256 ELSE inv[i]]

RECURSIVE StripZeros(_)
StripZeros(d) ==
    IF Len(d) > 1 /\ Head(d) = "0" THEN StripZeros(Tail(d)) ELSE d

\* Number.prototype.toString(16) of a word: a '-' for a negative number,
\* then the hexadecimal digits of its magnitude without leading zeros
toString16(x) ==
    LET neg == x[4] >= 128
        m   == IF neg THEN Negate(x) ELSE x
        digits == [k \in 1..8 |->
                     LET b == m[4 - ((k - 1) \div 2)]
                     IN  HexDigits[(IF k % 2 = 1 THEN b \div 16 ELSE b % 16) + 1]]
    IN  (IF neg THEN <<"-">> ELSE <<>>) \o StripZeros(digits)

\* Core.uuidv4, random being what crypto.randomBytes(16) returned (bytes[i]
\* of the code is bytes[i + 1] here)
uuidv4(random) ==
    LET bytes == [i \in 1..16 |->
                    CASE i = 7 -> BitOr(BitAnd(random[7], 15, 8), 64, 8)
                      [] i = 9 -> BitOr(BitAnd(random[9], 63, 8), 128, 8)
                      [] OTHER -> random[i]]
        B(i) == Word(bytes[i + 1])
        p1 == toString16(bor(bor(bor(B(0), shl(B(1), 8)), shl(B(2), 16)), shl(B(3), 24)))
        p2 == toString16(bor(B(4), shl(B(5), 8)))
        p3 == toString16(bor(B(6), shl(B(7), 8)))
        p4 == toString16(bor(B(8), shl(B(9), 8)))
        p5 == toString16(bor(bor(bor(bor(bor(B(10), shl(B(11), 8)), shl(B(12), 16)),
                                     shl(B(13), 24)), shl(B(14), 32)), shl(B(15), 40)))
    IN  p1 \o <<"-">> \o p2 \o <<"-">> \o p3 \o <<"-">> \o p4 \o <<"-">> \o p5

\* the values a random byte takes in the model
ByteVals == {0, 90, 255}

\* what crypto.randomBytes(16) can return: the bytes the code treats alike
\* are drawn together
RandomBytes ==
    {[i \in 1..16 |->
        CASE i \in {1, 2, 3}    -> lo
          [] i = 4              -> b3
          [] i \in {5, 6}       -> mid
          [] i = 7              -> b6
          [] i = 8              -> b7
          [] i = 9              -> b8
          [] i = 10             -> b9
          [] i \in {11, 12, 13} -> lo
          [] i = 14             -> b3
          [] OTHER              -> hi] :
     lo \in ByteVals, mid \in ByteVals, hi \in ByteVals, b3 \in ByteVals,
     b6 \in ByteVals, b7 \in ByteVals, b8 \in ByteVals, b9 \in ByteVals}

\* uuidv4() is called; the bytes drawn are kept with the call
Uuidv4 ==
    /\ calls = <<>>
    /\ draft = "README.md"
    /\ \E random \in RandomBytes :
        /\ Apply("uuidv4", JsUndef, random, Returned(JsStr(uuidv4(random))))
        /\ UNCHANGED grp

NextFmt ==
    \/ IssueCommand \/ EscapeData \/ EscapeProperty \/ PrepareKeyValueMessage
    \/ Uuidv4

SpecFmt == InitFmt /\ [][NextFmt]_vars

-----------------------------------------------------------------------------
(* Fetch orchestrator: run() of main.js and part_001, main() of README.md *)

SRC_REF_DEFAULT == <<"m", "a", "s", "t", "e", "r">>
SRC_BASH_FUN_PATH == <<"fun.sh">>
DEST_DEFAULT == <<"~", "/">> \o SRC_BASH_FUN_PATH

HomeFun == homedir \o <<"/", "fun.sh">>
TmpFile == <<"/", "tmp", "/", "x.sh">>

\* the directories of the host; a file can be created only inside one
Directories == {homedir, cwd, <<"/", "tmp">>}

\* the directory part of a path that ends in "/" name
dirname(path) == SubSeq(path, 1, Len(path) - 2)

\* the characters of [a-zA-Z0-9_.-] that the inputs of the model use
RefChars == {"m", "a", "s", "t", "e", "r", "v", "1", "_", ".", "-"}

\* a run() that skips the validation of ref
RefIsValid_skipped(ref) == TRUE

\* /^[a-zA-Z0-9_.-]*$/.test(ref)
RefIsValid(ref) == \A i \in 1..Len(ref) : ref[i] \in RefChars

\* path.resolve(p): an absolute path stays, a relative one is taken from cwd
resolve(p) == IF p # <<>> /\ Head(p) = "/" THEN p ELSE cwd \o <<"/">> \o p

\* path.resolve(dest.startsWith('~') ? os.homedir() + dest.slice(1) : dest)
ResolveDest(dest) ==
    resolve(IF dest # <<>> /\ Head(dest) = "~" THEN homedir \o Tail(dest) ELSE dest)

\* fs.existsSync(dest) in run()/main()
DestTaken(dest) == existsSync(disk, dest)

\* x || dflt, for the string a getInput call returned
OrDefault(eff, dflt) == IF eff.ret.v # <<>> THEN eff.ret.v ELSE dflt

\* the record of a call in the history
Rec(op, arg, eff) ==
    [op |-> op, arg |-> arg, props |-> <<>>, threw |-> eff.threw, out |-> eff.out, ret |-> eff.ret]

InvalidRefMsg == JsStr(<<"Invalid ref input. It must conform to GitHub's git reference syntax.">>)
DestExistsMsg == JsStr(<<"Destination file already exists.">>)

\* What the synchronous part of the orchestrator does: the calls it makes,
\* and whether it ends there (next = "done") or starts the download of url
\* into dest (next = "fetch").
Stop(recs) == [recs |-> recs, next |-> "done", url |-> <<>>, dest |-> <<>>]
Fetch(recs, url, dest) == [recs |-> recs, next |-> "fetch", url |-> url, dest |-> dest]

\* src/main.js run(): line 343 calls a global getInput that main.js does not
\* define, the ReferenceError is caught and reported
core_run ==
    LET msg == JsStr(<<"getInput is not defined">>)
    IN  Stop(<<Rec("setFailed", msg, core_setFailed(msg))>>)

\* src/unnamed/part_001 run(): line 59 reads FILE_NAME, which is not defined
run ==
    LET ref == OrDefault(getInput(N_ref, FALSE), SRC_REF_DEFAULT)
        msg == JsStr(<<"FILE_NAME is not defined">>)
    IN  IF ~RefIsValid(ref)
        THEN Stop(<<Rec("setFailed", InvalidRefMsg, setFailed(InvalidRefMsg))>>)
        ELSE Stop(<<Rec("setFailed", msg, setFailed(msg))>>)

Dbg(text) == Rec("debug", JsStr(text), Core_debug(JsStr(text)))

\* src/README.md main()
Core_main ==
    LET ref  == OrDefault(core_getInput(N_ref, FALSE), SRC_REF_DEFAULT)
        dest == OrDefault(core_getInput(N_dest, FALSE), DEST_DEFAULT)
        url  == <<"https://github.com/", "actions-rindeal/bash-fun", "/raw/">>
                \o ref \o <<"/">> \o SRC_BASH_FUN_PATH
        path == ResolveDest(dest)
        d1   == <<Dbg(<<"Starting the run function">>),
                  Dbg(<<"Reference: ">> \o ref),
                  Dbg(<<"Destination: ">> \o dest)>>
        d2   == d1 \o <<Dbg(<<"Download URL: ">> \o url),
                        Dbg(<<"Resolved destination: ">> \o path)>>
    IN  IF ~RefIsValid(ref)
        THEN Stop(Append(d1, Rec("setFailed", InvalidRefMsg, Core_setFailed(InvalidRefMsg))))
        ELSE IF DestTaken(path)
        THEN Stop(Append(d2, Rec("setFailed", DestExistsMsg, Core_setFailed(DestExistsMsg))))
        ELSE Fetch(d2, url, path)

\* what the calls of a list wrote, in order
RECURSIVE Outs(_)
Outs(recs) == IF recs = <<>> THEN <<>> ELSE Head(recs).out \o Outs(Tail(recs))

\* run()/main() is called and runs to its return
RunStart ==
    /\ pc = "start"
    /\ LET r == CASE draft = "main.js"   -> core_run
                  [] draft = "part_001"  -> run
                  [] draft = "README.md" -> Core_main
       IN  /\ calls' = calls \o r.recs
           /\ stdout' = stdout \o Outs(r.recs)
           /\ exitCode' = IF \E i \in 1..Len(r.recs) : r.recs[i].op = "setFailed"
                          THEN 1 ELSE exitCode
           /\ IF r.next = "fetch"
              THEN /\ pc' = "waiting"
                   /\ req' = [st |-> "pending", url |-> r.url, chunks |-> 0, err |-> <<>>]
                   /\ file' = [st |-> "opening", path |-> r.dest]
              ELSE /\ pc' = "done"
                   /\ UNCHANGED <<req, file>>
    /\ UNCHANGED <<draft, env, disk, disk0, crashed, grp>>

\* An exception that no handler catches ends the process with status 1
Crash ==
    /\ crashed' = TRUE
    /\ exitCode' = 1
    /\ pc' = "done"

\* fs.createWriteStream(dest) opens the file: it is created empty, or the
\* stream emits 'error', which nothing listens to
FileOpen ==
    /\ pc = "waiting"
    /\ file.st = "opening"
    /\ IF dirname(file.path) \in Directories
       THEN /\ disk' = DiskPut(disk, file.path, <<>>)
            /\ file' = [file EXCEPT !.st = "open"]
            /\ UNCHANGED <<exitCode, crashed, pc>>
       ELSE /\ Crash
            /\ file' = [file EXCEPT !.st = "failed"]
            /\ UNCHANGED disk
    /\ UNCHANGED <<draft, env, disk0, stdout, calls, req, grp>>

\* the 'response' callback: response.pipe(file), file.on('finish', ...)
Response ==
    /\ pc = "waiting"
    /\ req.st = "pending"
    /\ req' = [req EXCEPT !.st = "responding"]
    /\ UNCHANGED <<draft, env, disk, disk0, exitCode, stdout, crashed, calls, pc, file, grp>>

\* the pipe writes a chunk of the body to the destination
BodyChunk ==
    /\ pc = "waiting"
    /\ req.st = "responding"
    /\ file.st = "open"
    /\ req.chunks < MaxChunks
    /\ req' = [req EXCEPT !.chunks = @ + 1]
    /\ disk' = DiskPut(disk, file.path, disk[file.path].content \o <<"chunk">>)
    /\ UNCHANGED <<draft, env, disk0, exitCode, stdout, crashed, calls, pc, file, grp>>

\* the response ends: the pipe calls file.end()
BodyEnd ==
    /\ pc = "waiting"
    /\ req.st = "responding"
    /\ file.st = "open"
    /\ req' = [req EXCEPT !.st = "ended"]
    /\ file' = [file EXCEPT !.st = "ending"]
    /\ UNCHANGED <<draft, env, disk, disk0, exitCode, stdout, crashed, calls, pc, grp>>

\* the stream emits 'finish': the listener calls file.close(callback)
Finish ==
    /\ pc = "waiting"
    /\ file.st = "ending"
    /\ file' = [file EXCEPT !.st = "closing"]
    /\ UNCHANGED <<draft, env, disk, disk0, exitCode, stdout, crashed, calls, pc, req, grp>>

\* `File downloaded successfully to ${dest}` and its README.md wording
SuccessMsg(dest) ==
    IF draft = "README.md"
    THEN JsStr(<<"BASH Fun! downloaded successfully to '">> \o dest \o <<"'">>)
    ELSE JsStr(<<"File downloaded successfully to ">> \o dest)

\* the body of the callback handed to file.close: setOutput('message', ...),
\* and in README.md a debug line after it; an error of setOutput is caught
\* by nobody
ReportSuccess ==
    /\ file' = [file EXCEPT !.st = "closed"]
    /\ \E u \in Uuids :
         LET msg == SuccessMsg(file.path)
             so  == CASE draft = "main.js"   -> core_setOutput(<<"message">>, msg, u)
                      [] draft = "README.md" -> Core_setOutput(<<"message">>, msg, u)
                      [] draft = "part_001"  -> setOutput(<<"message">>, msg)
             recs == <<Rec("setOutput", msg, so)>>
                     \o IF draft = "README.md" /\ ~so.threw
                        THEN <<Dbg(<<"File downloaded successfully">>)>> ELSE <<>>
         IN  /\ calls' = calls \o recs
             /\ stdout' = stdout \o Outs(recs)
             /\ disk' = so.disk
             /\ IF so.threw THEN Crash
                ELSE pc' = "done" /\ UNCHANGED <<exitCode, crashed>>
    /\ UNCHANGED <<draft, env, disk0, req, grp>>

\* a run() that reports success in the 'response' callback, right after
\* response.pipe(file), instead of in the callback of file.close
Closed_atResponse ==
    /\ pc = "waiting"
    /\ req.st = "responding"
    /\ file.st = "open"
    /\ ReportSuccess

\* the stream is closed: the callback of file.close runs
Closed ==
    /\ pc = "waiting"
    /\ file.st = "closing"
    /\ ReportSuccess

\* fs.unlink(path) called without a callback: Node.js 10 and later (the
\* action runs on Node.js 12, 16 or 20) throw ERR_INVALID_CALLBACK
fs_unlink(path, callback) ==
    IF ~callback THEN Threw
    ELSE [Returned(JsUndef) EXCEPT !.disk = DiskRemove(disk, path)]

ErrMessages == {<<"ECONNRESET">>, <<"getaddrinfo ", "%", "\n">>}

\* the request's 'error' listener: fs.unlink(dest), then setFailed(...)
OnRequestError(err) ==
    LET rm  == fs_unlink(file.path, FALSE)
        msg == JsStr(<<"Failed to download file: ">> \o err)
        sf  == CASE draft = "main.js"   -> core_setFailed(msg)
                 [] draft = "README.md" -> Core_setFailed(msg)
                 [] draft = "part_001"  -> setFailed(msg)
    IN  IF rm.threw THEN [threw |-> TRUE, recs |-> <<>>, disk |-> disk]
        ELSE [threw |-> sf.threw, recs |-> <<Rec("setFailed", msg, sf)>>, disk |-> rm.disk]

\* the request fails, before the response or while its body arrives
RequestError ==
    /\ pc = "waiting"
    /\ req.st \in {"pending", "responding"}
    /\ \E err \in ErrMessages :
         LET h == OnRequestError(err)
         IN  /\ req' = [req EXCEPT !.st = "failed", !.err = err]
             /\ calls' = calls \o h.recs
             /\ stdout' = stdout \o Outs(h.recs)
             /\ disk' = h.disk
             /\ IF h.threw THEN Crash
                ELSE /\ exitCode' = IF h.recs # <<>> THEN 1 ELSE exitCode
                     /\ pc' = "done"
                     /\ UNCHANGED crashed
    /\ UNCHANGED <<draft, env, disk0, file, grp>>

RefInputs == {JsUndef, JsStr(<<"v", "1">>), JsStr(<<"v", "/", "1">>), JsStr(<<" ", "v", " ", "1">>)}

DestInputs == {JsUndef, JsStr(<<"~", "/", "fun.sh">>), JsStr(TmpFile), JsStr(<<"rel.sh">>),
               JsStr(<<"/", "nodir", "/", "x.sh">>)}

InitRun ==
    /\ draft \in Drafts
    /\ \E ref \in RefInputs, dest \in DestInputs, provided \in BOOLEAN :
         /\ env = [k \in {K_REF, K_DEST, K_OUTPUT} |->
                    CASE k = K_REF    -> ref
                      [] k = K_DEST   -> dest
                      [] k = K_OUTPUT -> IF provided THEN JsStr(OutputFile) ELSE JsUndef]
         /\ \E taken \in SUBSET {HomeFun, TmpFile} :
              disk = [q \in {HomeFun, TmpFile, OutputFile} |->
                        IF q = OutputFile THEN (IF provided THEN EmptyFile ELSE NoFile)
                        ELSE IF q \in taken THEN [exists |-> TRUE, content |-> <<"old">>]
                        ELSE NoFile]
    /\ disk0 = disk
    /\ exitCode = 0
    /\ stdout = <<>>
    /\ crashed = FALSE
    /\ calls = <<>>
    /\ pc = "start"
    /\ req = IdleReq
    /\ file = IdleFile
    /\ grp = IdleGrp

NextRun ==
    \/ RunStart \/ FileOpen \/ Response \/ BodyChunk \/ BodyEnd \/ Finish \/ Closed
    \/ RequestError

SpecRun == InitRun /\ [][NextRun]_vars

-----------------------------------------------------------------------------
(* Reading what was written to stdout, as the runner's log scraper does *)

\* the write is one line: its only line break is the terminator that ends it
OneLine(w) ==
    /\ w # <<>>
    /\ w[Len(w)] = "\n"
    /\ Count(w, "\n") = 1
    /\ Count(w, "\r") = 0

\* the position of the "::" that closes the command's head, 0 when none does
CloseIdx(w) ==
    IF \E k \in 3..Len(w) : w[k] = "::"
    THEN CHOOSE k \in 3..Len(w) : w[k] = "::" /\ \A j \in 3..(k - 1) : w[j] # "::"
    ELSE 0

\* the write begins a command called name
IsCommand(w, name) == Len(w) >= 2 /\ w[1] = "::" /\ w[2] = name

\* the write is one command line called name, and its message part contains msg
IsCommandLine(w, name, msg) ==
    /\ OneLine(w)
    /\ IsCommand(w, name)
    /\ CloseIdx(w) > 0
    /\ Contains(SubSeq(w, CloseIdx(w) + 1, Len(w) - 1), msg)

-----------------------------------------------------------------------------
(* Claims checked under SpecApi *)

\* C2: one call of setFailed(message) sets the exit status to nonzero and
\* writes exactly one command line to stdout, named 'error', whose message
\* part contains the escaped message; the caller goes on afterwards (the
\* call is an entry of the history like any other).
C2_SetFailedOneErrorLine ==
    \A i \in 1..Len(calls) :
        calls[i].op = "setFailed" =>
            /\ exitCode # 0
            /\ ~calls[i].threw
            /\ Len(calls[i].out) = 1
            /\ IsCommandLine(calls[i].out[1], "error", escapeData(MsgString(calls[i].arg).v))

\* C3: after any sequence of API calls the exit status is nonzero if and
\* only if setFailed was called at least once in the sequence.
C3_ExitStatusIffSetFailed ==
    (exitCode # 0) <=> (\E i \in 1..Len(calls) : calls[i].op = "setFailed")

C3_Witness ==
    /\ Len(calls) >= 2
    /\ calls[1].op = "setFailed"
    /\ calls[Len(calls)].op \notin {"setFailed"}
    /\ exitCode # 0

\* the positions of an event in the trace of the group call
EvAt(ev) == {i \in 1..Len(grp.trace) : grp.trace[i].ev = ev}
Settled == EvAt("fn resolved") \cup EvAt("fn rejected")
Delivered == EvAt("caller resolved") \cup EvAt("caller rejected")

-----------------------------------------------------------------------------
(* Claims checked under SpecFmt *)

\* the properties with a non-empty value, in insertion order
RECURSIVE NonEmpty(_)
NonEmpty(props) ==
    IF props = <<>> THEN <<>>
    ELSE (IF Head(props)[2].t = "str" /\ Head(props)[2].v # <<>> THEN <<Head(props)>> ELSE <<>>)
         \o NonEmpty(Tail(props))

\* the command line the claim describes
Formatted(name, props, message) ==
    IF NonEmpty(props) = <<>>
    THEN <<"::", name, "::">> \o escapeData(message)
    ELSE <<"::", name, " ">>
         \o Join([i \in 1..Len(NonEmpty(props)) |->
                    <<NonEmpty(props)[i][1], "=">> \o escapeProperty(NonEmpty(props)[i][2].v)],
                 <<",">>)
         \o <<"::">> \o escapeData(message)

\* a mapping<string,string>: every value a string, or absent
StringProps(props) == \A i \in 1..Len(props) : props[i][2].t \in {"str", "undef"}

\* C8: the formatted command is '::{name}::{escapeData(message)}' when no
\* property has a non-empty value, and otherwise '::{name} ' followed by the
\* '{key}={escapeProperty(value)}' pairs of exactly the properties with
\* non-empty values, in insertion order, joined by ',', followed by
\* '::{escapeData(message)}'.
C8_FormatShape ==
    \A i \in 1..Len(calls) :
        (calls[i].op \in FmtNames /\ calls[i].arg.t = "str" /\ StringProps(calls[i].props)) =>
            /\ ~calls[i].threw
            /\ calls[i].out = <<Formatted(calls[i].op, calls[i].props, calls[i].arg.v) \o EOL>>

-----------------------------------------------------------------------------
(* More claims checked under SpecApi *)

CommandOps == {"debug", "notice", "warning", "error", "setFailed",
               "startGroup", "endGroup", "setCommandEcho"}

\* C9: every command written to stdout by debug, notice, warning, error,
\* setFailed, startGroup, endGroup or setCommandEcho occupies exactly one
\* line: the text written has no line break but the terminator that ends it.
C9_OneLinePerCommand ==
    \A i \in 1..Len(calls) :
        calls[i].op \in CommandOps =>
            \A k \in 1..Len(calls[i].out) : OneLine(calls[i].out[k])

\* the call is one the API documents: a string message, or an Error where
\* the method accepts one
Documented(c) ==
    \/ c.op \in {"notice", "warning", "error", "setFailed"} /\ c.arg.t \in {"str", "err"}
    \/ c.op \in {"debug", "startGroup", "setCommandEcho"} /\ c.arg.t = "str"
    \/ c.op = "endGroup"

\* C10: formatting and issuing a command never fails, for every command
\* name, every annotation (any subset of the six fields, with string or
\* numeric values) and every message; the absent message of endGroup() is
\* emitted as the empty string.
C10_IssuingNeverFails ==
    \A i \in 1..Len(calls) :
        Documented(calls[i]) =>
            /\ ~calls[i].threw
            /\ Len(calls[i].out) = 1
            /\ calls[i].op = "endGroup" =>
                  \E k \in 1..Len(calls[i].out[1]) :
                      calls[i].out[1] = SubSeq(calls[i].out[1], 1, k) \o escapeData(<<>>) \o EOL

-----------------------------------------------------------------------------
(* Claims checked under SpecRun *)

Outcomes == {i \in 1..Len(calls) : calls[i].op \in {"setOutput", "setFailed"}}

\* C1: every execution of the orchestrator reports exactly one terminal
\* outcome, one setOutput('message', ...) or one setFailed(...), never both
\* and never neither, whatever the order of the callbacks.
C1_ExactlyOneOutcome ==
    pc = "done" => Cardinality(Outcomes) = 1

\* the ref and dest the inputs stand for, with the defaults applied
RefGiven  == LET v == Trim(OrEmpty(EnvGet(K_REF)))  IN IF v = <<>> THEN SRC_REF_DEFAULT ELSE v
DestGiven == LET v == Trim(OrEmpty(EnvGet(K_DEST))) IN IF v = <<>> THEN DEST_DEFAULT ELSE v

\* the ref has a character outside [A-Za-z0-9_.-], or the destination was
\* there when the process started
ValidationFails ==
    \/ \E i \in 1..Len(RefGiven) : RefGiven[i] \notin RefChars
    \/ existsSync(disk0, ResolveDest(DestGiven))

\* C5: when validation fails, the failure is reported via setFailed with a
\* nonzero exit status, no HTTP request is started (so none is retried) and
\* no file is created, modified or deleted.
C5_ValidationFailure ==
    (pc # "start" /\ ValidationFails) =>
        /\ pc = "done"
        /\ exitCode # 0
        /\ \E i \in 1..Len(calls) : calls[i].op = "setFailed" /\ calls[i].out # <<>>
        /\ \A i \in 1..Len(calls) : calls[i].op # "setOutput"
        /\ req.st = "none"
        /\ file.st = "none"
        /\ disk = disk0

C5_Witness ==
    /\ pc = "done"
    /\ draft = "README.md"
    /\ \A i \in 1..Len(RefGiven) : RefGiven[i] \in RefChars
    /\ existsSync(disk0, ResolveDest(DestGiven))
    /\ disk[ResolveDest(DestGiven)].content = <<"old">>
    /\ exitCode = 1

\* C6: when the download fails with a transport error, the orchestrator
\* reports it via setFailed with the underlying message embedded, removes
\* the partially written destination file, does not retry and never
\* reports success.
C6_TransportError ==
    (pc = "done" /\ req.st = "failed") =>
        /\ exitCode # 0
        /\ \E i \in 1..Len(calls) :
              calls[i].op = "setFailed" /\ Contains(calls[i].arg.v, req.err)
        /\ ~existsSync(disk, file.path)
        /\ \A i \in 1..Len(calls) : calls[i].op # "setOutput"

\* C7: with neither 'ref' nor 'dest' supplied the action fetches fun.sh at
\* ref 'master' and writes it to fun.sh in the home directory.
C7_DefaultsFetchToHome ==
    (pc # "start" /\ ~Truthy(EnvGet(K_REF)) /\ ~Truthy(EnvGet(K_DEST))
                  /\ ~existsSync(disk0, HomeFun)) =>
        /\ req.st # "none"
        /\ Contains(req.url, SRC_REF_DEFAULT \o <<"/">> \o SRC_BASH_FUN_PATH)
        /\ file.path = HomeFun
        /\ file.st = "closed" =>
              /\ existsSync(disk, HomeFun)
              /\ Len(disk[HomeFun].content) = req.chunks

-----------------------------------------------------------------------------
(* Claims about the escaping functions, checked under SpecFmt *)

\* the text with each atom replaced by what the table gives for it
RECURSIVE EscapeEach(_, _)
EscapeEach(s, table) ==
    IF s = <<>> THEN <<>>
    ELSE (IF Head(s) \in DOMAIN table THEN table[Head(s)] ELSE <<Head(s)>>)
         \o EscapeEach(Tail(s), table)

DataTable ==
    [c \in {"%", "\r", "\n"} |->
        CASE c = "%"  -> <<"%", "2", "5">>
          [] c = "\r" -> <<"%", "0", "D">>
          [] c = "\n" -> <<"%", "0", "A">>]

PropertyTable ==
    [c \in {"%", "\r", "\n", ":", ","} |->
        CASE c \in DOMAIN DataTable -> DataTable[c]
          [] c = ":" -> <<"%", "3", "A">>
          [] c = "," -> <<"%", "2", "C">>]

HasAny(s, cs) == \E i \in 1..Len(s) : s[i] \in cs

\* C11: escapeData(s) is s with '%' replaced by '%25', then carriage return
\* by '%0D', then line feed by '%0A': each character of s is escaped once
\* and a '%' the later substitutions introduce is not escaped again
\* ('100% done\r\n' gives '100%25 done%0D%0A'); escaping twice differs from
\* escaping once for every s with a '%', a carriage return or a line feed.
C11_EscapeData ==
    \A i \in 1..Len(calls) :
        calls[i].op = "escapeData" =>
            /\ ~calls[i].threw
            /\ calls[i].ret.v = EscapeEach(calls[i].arg.v, DataTable)
            /\ calls[i].arg.v = <<"100", "%", " done", "\r", "\n">> =>
                  calls[i].ret.v = <<"100", "%", "2", "5", " done", "%", "0", "D", "%", "0", "A">>
            /\ HasAny(calls[i].arg.v, {"%", "\r", "\n"}) =>
                  escapeData(calls[i].ret.v) # calls[i].ret.v

C11_Witness ==
    /\ Len(calls) = 1
    /\ calls[1].op = "escapeData"
    /\ calls[1].arg.v = <<"\r", "%">>
    /\ calls[1].ret.v = <<"%", "0", "D", "%", "2", "5">>

\* C12: escapeProperty(s) is escapeData(s) with, afterwards, every ':'
\* replaced by '%3A' and every ',' by '%2C' ('a:b,c' gives 'a%3Ab%2Cc'); the
\* result has no raw ':', ',', carriage return or line feed.
C12_EscapeProperty ==
    \A i \in 1..Len(calls) :
        calls[i].op = "escapeProperty" =>
            /\ ~calls[i].threw
            /\ calls[i].ret.v = EscapeEach(calls[i].arg.v, PropertyTable)
            /\ calls[i].ret.v =
                  EscapeEach(escapeData(calls[i].arg.v), [c \in {":", ","} |-> PropertyTable[c]])
            /\ calls[i].arg.v = <<"a", ":", "b", ",", "c">> =>
                  calls[i].ret.v = <<"a", "%", "3", "A", "b", "%", "2", "C", "c">>
            /\ ~HasAny(calls[i].ret.v, {":", ",", "\r", "\n"})

C12_Witness ==
    /\ Len(calls) = 1
    /\ calls[1].op = "escapeProperty"
    /\ calls[1].arg.v = <<",", ":">>
    /\ calls[1].ret.v = <<"%", "2", "C", "%", "3", "A">>

-----------------------------------------------------------------------------
(* Claims about inputs and the file channels, checked under SpecApi *)

\* C13: getInput(name, required) reads the variable 'INPUT_' + the name with
\* hyphens replaced by underscores, uppercased ('my-name' reads
\* INPUT_MY_NAME) and returns its value trimmed; when the variable is absent
\* it raises an error if required and returns '' if not; the environment
\* is never modified.
C13_GetInput ==
    /\ env = ApiEnv(disk0[OutputFile].exists)
    /\ \A i \in 1..Len(calls) :
          calls[i].op = "getInput" =>
              LET val == EnvGet(<<"INPUT_">> \o toUpperCase(ReplaceAll(calls[i].arg.v, "-", <<"_">>)))
                  required == calls[i].props # <<>>
              IN  /\ Truthy(val) => ~calls[i].threw /\ calls[i].ret = JsStr(Trim(val.v))
                  /\ (val = JsUndef /\ required) => calls[i].threw
                  /\ (val = JsUndef /\ ~required) => ~calls[i].threw /\ calls[i].ret = JsStr(<<>>)

\* the variable that names the channel file of a call
ChannelKey(op) == IF op = "setOutput" THEN K_OUTPUT ELSE K_STATE

\* the channel is not available: the variable is unset, or names no file
ChannelMissing(k) == ~Truthy(EnvGet(k)) \/ ~existsSync(disk, EnvGet(k).v)

\* C14: setOutput and saveState (through issueFileCommand) fail by raising an
\* error when GITHUB_{channel} is unset or when the path it names does not
\* exist on disk, and in both cases no file is created and nothing is
\* appended to any file.  (The drafts that have an issueFileCommand:
\* main.js and README.md.)
C14_FileCommandErrors ==
    [][(HasClass /\ Len(calls') = Len(calls) + 1
          /\ calls'[Len(calls')].op \in {"setOutput", "saveState"}
          /\ ChannelMissing(ChannelKey(calls'[Len(calls')].op)))
       => (calls'[Len(calls')].threw /\ disk' = disk /\ stdout' = stdout)]_vars

C14_Witness ==
    /\ draft = "main.js"
    /\ Len(calls) = 2
    /\ calls[1].op = "setOutput" /\ calls[1].threw /\ ~Truthy(EnvGet(K_OUTPUT))
    /\ calls[2].op = "saveState" /\ calls[2].threw /\ Truthy(EnvGet(K_STATE))
    /\ ~existsSync(disk, StateFile)

\* the records the successful calls of op appended, in call order, each
\* followed by the line terminator
RECURSIVE Appended(_, _, _)
Appended(cs, op, name) ==
    IF cs = <<>> THEN <<>>
    ELSE (IF Head(cs).op = op /\ ~Head(cs).threw
          THEN Core_prepareKeyValueMessage(name, Head(cs).arg, Head(cs).props[1]) \o EOL
          ELSE <<>>)
         \o Appended(Tail(cs), op, name)

\* C15: after any sequence of setOutput and saveState calls each channel
\* file holds its initial content followed by the records of the successful
\* calls to that channel, in call order, each followed by a line terminator:
\* calls only append.  (The drafts that write to the file channels: main.js
\* and README.md.)
C15_AppendOnly ==
    HasClass =>
        /\ disk[OutputFile].content = disk0[OutputFile].content \o Appended(calls, "setOutput", <<"x">>)
        /\ disk[StateFile].content = disk0[StateFile].content \o Appended(calls, "saveState", <<"s">>)
        /\ disk[OutputFile].exists = disk0[OutputFile].exists
        /\ disk[StateFile].exists = disk0[StateFile].exists

C15_Witness ==
    /\ draft = "README.md"
    /\ Len(calls) = 2
    /\ calls[1].op = "setOutput" /\ ~calls[1].threw
    /\ calls[2].op = "setOutput" /\ ~calls[2].threw
    /\ calls[1].arg # calls[2].arg
    /\ Len(disk[OutputFile].content) > Len(disk0[OutputFile].content) + 10

-----------------------------------------------------------------------------
(* Claims about the key/value records *)

\* the positions of the line breaks of a text
Breaks(r) == {k \in 1..Len(r) : r[k] = "\n"}
FirstBreak(r) == CHOOSE k \in Breaks(r) : \A j \in Breaks(r) : k <= j
LastBreak(r) == CHOOSE k \in Breaks(r) : \A j \in Breaks(r) : j <= k

\* C16: prepareKeyValueMessage(key, value) is '{key}<<{token}', a line
\* break, toCommandValue(value), a line break and '{token}': the token
\* starts with 'ghadelimiter_' and is the same in the first and the last
\* line (key 'x' and value 'hello' give 'x<<TOKEN', 'hello', 'TOKEN').
C16_KeyValueMessage ==
    \A i \in 1..Len(calls) :
        calls[i].op = "prepareKeyValueMessage" =>
            LET r     == calls[i].ret.v
                key   == calls[i].props[2]
                token == SubSeq(r, LastBreak(r) + 1, Len(r))
            IN  /\ ~calls[i].threw
                /\ Cardinality(Breaks(r)) >= 2
                /\ token # <<>> /\ token[1] = "ghadelimiter_"
                /\ SubSeq(r, 1, FirstBreak(r) - 1) = key \o <<"<<">> \o token
                /\ SubSeq(r, FirstBreak(r) + 1, LastBreak(r) - 1) = toCommandValue(calls[i].arg)
                /\ (key = <<"x">> /\ calls[i].arg = JsStr(<<"hello">>)) =>
                      r = <<"x", "<<">> \o token \o <<"\n", "hello", "\n">> \o token

C16_Witness ==
    /\ Len(calls) = 1
    /\ calls[1].op = "prepareKeyValueMessage"
    /\ calls[1].arg = JsStr(<<"b", "\n">>)
    /\ Cardinality(Breaks(calls[1].ret.v)) = 3

\* What a reader of the channel file does with a record: the delimiter is
\* what follows '<<' on the first line, and the value is what stands between
\* the first two occurrences of the delimiter, without the line break after
\* the first and the one before the second.
Emitted(rec) ==
    LET open == CHOOSE k \in 1..Len(rec) : rec[k] = "<<" /\ \A j \in 1..(k - 1) : rec[j] # "<<"
    IN  SubSeq(rec, open + 1, FirstBreak(rec) - 1)

Occurrences(rec, tok) ==
    {k \in 1..(Len(rec) - Len(tok) + 1) : SubSeq(rec, k, k + Len(tok) - 1) = tok}

Recovered(rec) ==
    LET tok == Emitted(rec)
        occ == Occurrences(rec, tok)
        a   == CHOOSE k \in occ : \A j \in occ : k <= j
        b   == CHOOSE k \in occ \ {a} : \A j \in occ \ {a} : k <= j
    IN  SubSeq(rec, a + Len(tok) + 1, b - 2)

\* what a step appended to the output channel file
AppendedRecord ==
    SubSeq(disk'[OutputFile].content, Len(disk[OutputFile].content) + 1,
           Len(disk'[OutputFile].content))

\* C18: for every value whose serialized form does not contain the
\* delimiter, after setOutput(name, value) succeeds, reading the record it
\* appended to the output file and splitting it on the emitted delimiter
\* recovers exactly toCommandValue(value), multi-line values included.  (The
\* drafts that write to the file channel: main.js and README.md.)
C18_RoundTrip ==
    [][(HasClass /\ Len(calls') = Len(calls) + 1
          /\ calls'[Len(calls')].op = "setOutput"
          /\ ~calls'[Len(calls')].threw
          /\ ~Contains(toCommandValue(calls'[Len(calls')].arg),
                       <<"ghadelimiter_", calls'[Len(calls')].props[1]>>))
       => (/\ Cardinality(Occurrences(AppendedRecord, Emitted(AppendedRecord))) = 2
           /\ Recovered(AppendedRecord) = toCommandValue(calls'[Len(calls')].arg))]_vars

C18_Witness ==
    /\ draft = "main.js"
    /\ Len(calls) = 2
    /\ calls[2].op = "setOutput" /\ ~calls[2].threw
    /\ calls[2].arg = JsStr(<<"a", "\n", "b">>)
    /\ Contains(disk[OutputFile].content, <<"\n", "a", "\n", "b", "\n", "ghadelimiter_">>)

\* C19: setOutput(name, value) delivers its record only through the file
\* channel: it appends to the file GITHUB_OUTPUT names and leaves the
\* GITHUB_STATE file, stdout and the exit status unchanged (no legacy
\* '::set-output' line); saveState appends only to the file GITHUB_STATE
\* names and leaves the GITHUB_OUTPUT file, stdout and the exit status
\* unchanged.
C19_FileChannelOnly ==
    [][(Len(calls') = Len(calls) + 1
          /\ calls'[Len(calls')].op \in {"setOutput", "saveState"}
          /\ ~calls'[Len(calls')].threw)
       => LET mine  == IF calls'[Len(calls')].op = "setOutput" THEN OutputFile ELSE StateFile
              other == IF calls'[Len(calls')].op = "setOutput" THEN StateFile ELSE OutputFile
          IN  /\ stdout' = stdout
              /\ exitCode' = exitCode
              /\ disk'[other] = disk[other]
              /\ Len(disk'[mine].content) > Len(disk[mine].content)
              /\ SubSeq(disk'[mine].content, 1, Len(disk[mine].content)) = disk[mine].content]_vars

-----------------------------------------------------------------------------
(* More claims checked under SpecRun *)

\* C20: the orchestrator reports success only after the download is
\* complete on disk: setOutput('message', ...) is called after the
\* destination stream has emitted 'finish' and has been closed, and never in
\* an execution where validation failed.
C20_SuccessAfterClose ==
    [][(\E i \in (Len(calls) + 1)..Len(calls') : calls'[i].op = "setOutput")
       => (/\ file.st = "closing"
           /\ req.st = "ended"
           /\ existsSync(disk, file.path)
           /\ Len(disk[file.path].content) = req.chunks
           /\ ~ValidationFails)]_vars

C20_Witness ==
    /\ pc = "done"
    /\ file.st = "closed"
    /\ req.chunks >= 1
    /\ \E i \in 1..Len(calls) : calls[i].op = "setOutput" /\ ~calls[i].threw
    /\ exitCode = 0

-----------------------------------------------------------------------------
(* Claim about uuidv4, checked under SpecFmt *)

\* C21: for every 16 random bytes uuidv4() returns a version-4 UUID string
\* as per RFC 4122: five groups of 8, 4, 4, 4 and 12 lowercase hexadecimal
\* digits separated by '-', with no sign character, where the first digit
\* of the third group is '4' and the first digit of the fourth group is one
\* of '8', '9', 'a', 'b'.
C21_UuidFormat ==
    \A i \in 1..Len(calls) :
        calls[i].op = "uuidv4" =>
            LET u == calls[i].ret.v
                hex == {HexDigits[k] : k \in 1..Len(HexDigits)}
            IN  /\ ~calls[i].threw
                /\ Len(u) = 36
                /\ \A k \in 1..Len(u) :
                      IF k \in {9, 14, 19, 24} THEN u[k] = "-" ELSE u[k] \in hex
                /\ u[15] = "4"
                /\ u[20] \in {"8", "9", "a", "b"}

====
